---------------------------- MODULE Spec2Model ----------------------------
(***************************************************************************)
(* Model of lab01: the adaptive-step gradient descent of optimizer.rs, the *)
(* finite-difference gradient and the expression evaluator wrapper of      *)
(* parser.rs, and the front-end state machine of gui.rs that starts the    *)
(* descent on a worker thread, requests its cancellation and receives its  *)
(* result through an mpsc channel.                                         *)
(*                                                                         *)
(* Numbers.  f64 coordinates and objective values are modelled on an       *)
(* integer grid (one grid unit is also the finite-difference step eps), a  *)
(* sum that falls between grid points is rounded to the nearest one, as a  *)
(* float sum is rounded to the nearest float.  Step sizes (initial step,   *)
(* decay, growth, base step, trial step) are exact dyadic rationals        *)
(* [m, e] = m / 2^e, so that twenty successive shrinkings of a trial step  *)
(* stay distinct and positive, as they do in f64.                          *)
(***************************************************************************)
EXTENDS Integers, Sequences, FiniteSets, TLC

(***************************************************************************)
(* Bounds of the model.                                                    *)
(***************************************************************************)
\* the dimension widget ranges over 1..=10 (gui.rs:173); the model over 1..MaxDim
MaxDim == 2
\* the iteration widget ranges over 1..=10000 (gui.rs:231); the model over 1..MaxIter
MaxIter == 2
\* the coordinates of the points ParsedFunction::gradient is called on
\* directly range over -MaxCoord..MaxCoord
MaxCoord == 2

(***************************************************************************)
(* Program constants.                                                      *)
(***************************************************************************)
\* for _ in 0..20 (optimizer.rs:59)
TrialBudget == 20
\* the finite-difference step passed to gradient (gui.rs:126), one grid unit
Eps == 1
\* the tolerance widget's upper end 1.0 (gui.rs:222): gradients are integers
\* on the grid, so every tolerance in (0, 1] accepts exactly the zero gradient
Tolerance == 1

(***************************************************************************)
(* Dyadic rationals [m |-> mantissa, e |-> exponent], value m / 2^e.       *)
(***************************************************************************)
RECURSIVE Norm(_)
Norm(d) ==
    IF d.m = 0 THEN [m |-> 0, e |-> 0]
    ELSE IF d.e > 0 /\ d.m % 2 = 0 THEN Norm([m |-> d.m \div 2, e |-> d.e - 1])
    ELSE d

Dy(m, e) == Norm([m |-> m, e |-> e])
One == Dy(1, 0)
Zero == Dy(0, 0)
DMul(a, b) == Norm([m |-> a.m * b.m, e |-> a.e + b.e])
\* a <= 1.0; mantissas stay far below 2^30
DLeqOne(a) == IF a.e > 30 THEN TRUE ELSE a.m <= 2^(a.e)
DPos(a) == a.m > 0
\* a < 1.0
DLtOne(a) == IF a.e > 30 THEN TRUE ELSE a.m < 2^(a.e)
\* f64::min(self, 1.0)
DMinOne(a) == IF DLeqOne(a) THEN a ELSE One

Abs(i) == IF i < 0 THEN -i ELSE i
\* a / 2^e rounded to the nearest grid point, halves away from zero; |a| < 2^29
RoundShift(a, e) ==
    IF e > 29 THEN 0
    ELSE LET q == (2 * Abs(a) + 2^e) \div (2^(e + 1))
         IN  IF a < 0 THEN -q ELSE q
\* the grid value of (t * c) for a dyadic t and a grid value c
Scaled(t, c) == RoundShift(t.m * c, t.e)


(***************************************************************************)
(* Result values: Ok(v) / Err(e), and Option values as sequences of length *)
(* at most one.                                                            *)
(***************************************************************************)
Ok(v) == [ok |-> TRUE, val |-> v, err |-> ""]
Err(e) == [ok |-> FALSE, val |-> 0, err |-> e]
None == << >>
Some(v) == << v >>
IsSome(o) == Len(o) = 1

(***************************************************************************)
(* The expressions the user may type into the function field, and what the *)
(* expression library does with each: whether the text parses, the highest *)
(* variable x_i it mentions, and its value at a point.                     *)
(***************************************************************************)
SumSq == "x1^2 + x2^2"
FlatSumSq == "max(x1^2 + x2^2 - 2, 0)"
Steep == "400000*min(abs(x1), 2)"
Broken == "x1^2 +"
FuncStrs == {SumSq, FlatSumSq, Steep, Broken}

Max2(a, b) == IF a >= b THEN a ELSE b
Min2(a, b) == IF a <= b THEN a ELSE b

\* expr_str.parse::<Expr>()
ExprParses(s) == s # Broken
\* the variables the expression reads are x1 .. x_ExprArity
ExprArity(s) == IF s = Steep THEN 1 ELSE 2
\* eval_with_context with x_i bound to p[i]; p has at least ExprArity(s) entries
ExprValue(s, p) ==
    CASE s = SumSq     -> p[1] * p[1] + p[2] * p[2]
      [] s = FlatSumSq -> Max2(p[1] * p[1] + p[2] * p[2] - 2, 0)
      [] s = Steep     -> 400000 * Min2(Abs(p[1]), 2)

\* ParsedFunction::new: parse, then a trial evaluation with x1..x_num_vars = 0,
\* which fails exactly when the expression reads a variable beyond x_num_vars
ParsedFunction_new(expr_str, num_vars) ==
    IF ~ExprParses(expr_str) THEN Err("ParseError")
    ELSE IF ExprArity(expr_str) > num_vars THEN Err("InvalidExpression")
    ELSE Ok([expr |-> expr_str, num_vars |-> num_vars])

\* ParsedFunction::eval
eval(pf, point) ==
    IF Len(point) # pf.num_vars THEN Err("EvalError")
    ELSE IF ExprArity(pf.expr) > pf.num_vars THEN Err("EvalError")
    ELSE Ok(ExprValue(pf.expr, point))

\* the loop body of ParsedFunction::gradient for coordinates i..n: grad is the
\* vector so far, calls the number of eval calls made so far
RECURSIVE GradientFrom(_, _, _, _, _, _, _)
GradientFrom(pf, point, eps, f0, i, grad, calls) ==
    IF i > Len(point) THEN [ok |-> TRUE, val |-> grad, calls |-> calls]
    ELSE LET point_plus == [point EXCEPT ![i] = @ + eps]
             f_plus == eval(pf, point_plus)
         IN  IF ~f_plus.ok THEN [ok |-> FALSE, val |-> << >>, calls |-> calls + 1]
             ELSE GradientFrom(pf, point, eps, f0, i + 1,
                               [grad EXCEPT ![i] = (f_plus.val - f0) \div eps],
                               calls + 1)

\* mutant of gradient: the difference is taken backwards, at x - eps*e_i
gradient_Backward(pf, point, eps) ==
    IF Len(point) # pf.num_vars THEN [ok |-> FALSE, val |-> << >>, calls |-> 0]
    ELSE LET f0 == eval(pf, point)
         IN  IF ~f0.ok THEN [ok |-> FALSE, val |-> << >>, calls |-> 1]
             ELSE GradientFrom(pf, point, 0 - eps, f0.val, 1,
                               [j \in 1..Len(point) |-> 0], 1)

\* ParsedFunction::gradient, with the number of eval calls it made
gradient(pf, point, eps) ==
    IF Len(point) # pf.num_vars THEN [ok |-> FALSE, val |-> << >>, calls |-> 0]
    ELSE LET f0 == eval(pf, point)
         IN  IF ~f0.ok THEN [ok |-> FALSE, val |-> << >>, calls |-> 1]
             ELSE GradientFrom(pf, point, eps, f0.val, 1,
                               [j \in 1..Len(point) |-> 0], 1)

\* g.norm() < tolerance; the coordinate test first keeps the squares small
NormBelow(g, tol) ==
    /\ \A j \in 1..Len(g) : Abs(g[j]) < tol
    /\ LET RECURSIVE SumSquares(_)
           SumSquares(j) == IF j = 0 THEN 0 ELSE g[j] * g[j] + SumSquares(j - 1)
       IN  SumSquares(Len(g)) < tol * tol

(***************************************************************************)
(* The values the front-end's widgets range over in the model.             *)
(***************************************************************************)
\* DragValue(num_vars).range(1..=10)
NumVarsRange == 1..MaxDim
\* DragValue(max_iterations).range(1..=10000)
MaxIterationsRange == 1..MaxIter
\* DragValue(initial_step).range(0.0..=10.0): both ends and the default 1.0
InitialSteps == {Zero, One, Dy(10, 0)}
\* DragValue(step_decay).range(0.1..=0.9): the default 0.5, and 0.25
StepDecays == {Dy(1, 1), Dy(1, 2)}
\* DragValue(step_increase).range(1.0..=2.0): both ends
StepIncreases == {One, Dy(2, 0)}
\* the starting point field, as its comma separated parts after trim()
PointStrs ==
    {<<"2", "2">>, <<"1", "0">>, <<"1">>, <<"2">>, <<"2", "a">>, <<"1", "0", "0">>}

\* part.trim().parse::<f64>()
parse_f64(part) ==
    CASE part = "0" -> Ok(0)
      [] part = "1" -> Ok(1)
      [] part = "2" -> Ok(2)
      [] OTHER      -> Err("ParseFloatError")

\* mutant of parse_initial_point: the length test is missing
parse_initial_point_NoLength(parts, n) ==
    IF \E j \in 1..Len(parts) : ~parse_f64(parts[j]).ok THEN None
    ELSE Some([j \in 1..Len(parts) |-> parse_f64(parts[j]).val])

\* GradientDescentApp::parse_initial_point on the parts of initial_point_str
parse_initial_point(parts, n) ==
    IF Len(parts) # n THEN None
    ELSE IF \E j \in 1..Len(parts) : ~parse_f64(parts[j]).ok THEN None
    ELSE Some([j \in 1..Len(parts) |-> parse_f64(parts[j]).val])

(***************************************************************************)
(* State.                                                                  *)
(***************************************************************************)
VARIABLES
    \* GradientDescentApp: the input fields
    func_str, num_vars, initial_point_str, initial_step, step_decay,
    step_increase, tolerance, max_iterations,
    \* GradientDescentApp: state, result, error_message ("" is None), stop_flag
    state, result, error_message, stop_flag,
    \* result_sender is Some; the queue of the channel result_receiver reads
    result_sender, chan,
    \* the worker thread: where it is, the values its closure captured, the
    \* locals of gradient_descent, and the OptimizerResult it returned
    w_pc, run, x, f_x, iter, step, history, direction, trial_step, attempt, ret,
    \* bookkeeping for the properties: eval calls the worker made while the stop
    \* flag was set, and results it sent, both counted per run
    late_evals, sent,
    \* ParsedFunction::gradient called directly: where the call is, its
    \* arguments and what it returned
    probe
\* Not modelled: parsed_func, which start_optimization writes and nothing
\* reads; result_receiver, which is always Some and whose queue is chan.

fields == <<func_str, num_vars, initial_point_str, initial_step, step_decay,
            step_increase, tolerance, max_iterations>>
gui == <<state, result, error_message, stop_flag, result_sender, chan>>
locals == <<x, f_x, iter, step, history, direction, trial_step, attempt>>
worker == <<w_pc, run, locals, ret>>
vars == <<fields, gui, worker, late_evals, sent, probe>>

\* the worker has returned from gradient_descent and holds its result
Terminal == {"Converged", "Stagnated", "BudgetExhausted", "Cancelled"}
\* the worker thread exists and has not ended
Active == {"entry", "loop", "grad", "trial"} \cup Terminal

NoRun == [pf |-> [expr |-> "", num_vars |-> 0], initial_point |-> << >>,
          initial_step |-> Zero, step_decay |-> Zero, step_increase |-> Zero,
          tolerance |-> 0, max_iterations |-> 0]

\* no direct call of ParsedFunction::gradient is under way
NoProbe == [pc |-> "none", pf |-> [expr |-> "", num_vars |-> 0],
            point |-> << >>,
            out |-> [ok |-> FALSE, val |-> << >>, calls |-> 0]]

\* no thread, or its stack is gone
LocalsGone ==
    /\ x' = << >> /\ f_x' = 0 /\ iter' = 0 /\ step' = Zero /\ history' = << >>
    /\ direction' = << >> /\ trial_step' = Zero /\ attempt' = 0

\* impl Default for GradientDescentApp; 1.2, 1e-6 and 1000 are replaced by
\* the nearest values the model ranges over
Init ==
    /\ func_str = SumSq /\ num_vars = 2 /\ initial_point_str = <<"2", "2">>
    /\ initial_step = One /\ step_decay = Dy(1, 1) /\ step_increase = One
    /\ tolerance = Tolerance /\ max_iterations = MaxIter
    /\ state = "Idle" /\ result = None /\ error_message = "" /\ stop_flag = FALSE
    /\ result_sender = TRUE /\ chan = << >>
    /\ w_pc = "none" /\ run = NoRun /\ ret = None
    /\ x = << >> /\ f_x = 0 /\ iter = 0 /\ step = Zero /\ history = << >>
    /\ direction = << >> /\ trial_step = Zero /\ attempt = 0
    /\ late_evals = 0 /\ sent = 0
    /\ probe = NoProbe

(***************************************************************************)
(* gradient_descent, on the worker thread.                                 *)
(***************************************************************************)
OptimizerResult(px, pf_x, piterations, phistory, pterminated_early) ==
    [x |-> px, f_x |-> pf_x, iterations |-> piterations, history |-> phistory,
     terminated_early |-> pterminated_early]

\* history.push((x[0], x[1], f_x)): indexing a DVector out of range panics
push_sample(h, px, pf_x) ==
    IF Len(px) < 2 THEN Err("index out of bounds")
    ELSE Ok(Append(h, <<px[1], px[2], pf_x>>))

\* mutant of LoopCondition: off by one
LoopCondition_Inclusive(i, max) == i <= max

\* while iter < max_iterations
LoopCondition(i, max) == i < max

\* mutant of CancelledResult: the abandoned iteration is counted
CancelledResult_Counted == OptimizerResult(x, f_x, iter + 1, history, TRUE)
\* mutant of CancelledResult: the flag of the other return
CancelledResult_NotEarly == OptimizerResult(x, f_x, iter, history, FALSE)

\* the result returned from inside the loop when the stop flag is seen
CancelledResult == OptimizerResult(x, f_x, iter, history, TRUE)
\* mutant of FinalResult: the flag read again at the return
FinalResult_FlagRead == OptimizerResult(x, f_x, iter, history, stop_flag)

\* the result returned after the loop
FinalResult == OptimizerResult(x, f_x, iter, history, FALSE)

\* mutant of TrialsLeft: off by one
TrialsLeft_Inclusive(k) == k <= TrialBudget

\* for _ in 0..20: attempt k is still to be made
TrialsLeft(k) == k < TrialBudget

\* mutant of Improves: a trial of equal value is accepted
Improves_OrEqual(f_trial, f_cur) == f_trial <= f_cur

\* if f_trial < f_x
Improves(f_trial, f_cur) == f_trial < f_cur

\* mutant of ShrinkTrial: the decay is applied twice
ShrinkTrial_Twice(trial, decay) == DMul(DMul(trial, decay), decay)

\* trial_step *= step_decay
ShrinkTrial(trial, decay) == DMul(trial, decay)

\* &x + trial_step * &direction
TrialPoint(px, t, d) == [j \in 1..Len(px) |-> px[j] + Scaled(t, d[j])]

\* mutant of NewStep: the clamp is missing
NewStep_Unclamped(increase, trial) == DMul(increase, trial)

\* step = (step_increase * trial_step).min(1.0)
NewStep(increase, trial) == DMinOne(DMul(increase, trial))

\* eval calls count towards late_evals when the stop flag is already set
Late(calls) == IF stop_flag THEN late_evals + calls ELSE late_evals

\* a panic unwinds the worker thread: its locals and its Sender are dropped
\* and nothing is sent
Panic ==
    /\ w_pc' = "panicked"
    /\ run' = NoRun
    /\ ret' = None
    /\ LocalsGone

\* optimizer.rs:28-34: the locals, the first evaluation (f is
\* |x| parsed.eval(x).unwrap()) and the seed sample
Entry ==
    /\ w_pc = "entry"
    /\ LET x0 == run.initial_point
           fx == eval(run.pf, x0)
           h  == push_sample(<< >>, x0, fx.val)
       IN  /\ late_evals' = Late(1)
           /\ IF ~fx.ok \/ ~h.ok
              THEN Panic
              ELSE /\ x' = x0
                   /\ f_x' = fx.val
                   /\ iter' = 0
                   /\ step' = run.initial_step
                   /\ history' = h.val
                   /\ w_pc' = "loop"
                   /\ UNCHANGED <<run, ret, direction, trial_step, attempt>>
    /\ UNCHANGED <<fields, gui, sent, probe>>

\* optimizer.rs:36-45 and 82-88: the loop condition and the poll of the flag
LoopHead ==
    /\ w_pc = "loop"
    /\ IF LoopCondition(iter, run.max_iterations)
       THEN IF stop_flag
            THEN /\ ret' = Some(CancelledResult)
                 /\ w_pc' = "Cancelled"
            ELSE /\ w_pc' = "grad"
                 /\ ret' = ret
       ELSE /\ ret' = Some(FinalResult)
            /\ w_pc' = "BudgetExhausted"
    /\ UNCHANGED <<fields, gui, run, locals, late_evals, sent, probe>>

\* optimizer.rs:47-57: the gradient (grad is
\* |x| parsed.gradient(x, 1e-6).unwrap()), the convergence test, the direction
Gradient ==
    /\ w_pc = "grad"
    /\ LET g == gradient(run.pf, x, Eps)
       IN  /\ late_evals' = Late(g.calls)
           /\ IF ~g.ok
              THEN Panic
              ELSE IF NormBelow(g.val, run.tolerance)
              THEN /\ ret' = Some(FinalResult)
                   /\ w_pc' = "Converged"
                   /\ UNCHANGED <<run, locals>>
              ELSE /\ direction' = [j \in 1..Len(g.val) |-> -g.val[j]]
                   /\ trial_step' = step
                   /\ attempt' = 0
                   /\ w_pc' = "trial"
                   /\ UNCHANGED <<run, ret, x, f_x, iter, step, history>>
    /\ UNCHANGED <<fields, gui, sent, probe>>

\* optimizer.rs:59-79: one pass of the step search; on an improvement the
\* step is committed, the iteration counted and its sample recorded; after
\* the last pass without one the loop is left
Trial ==
    /\ w_pc = "trial"
    /\ IF TrialsLeft(attempt)
       THEN LET x_trial == TrialPoint(x, trial_step, direction)
                f_trial == eval(run.pf, x_trial)
            IN  /\ late_evals' = Late(1)
                /\ IF ~f_trial.ok
                   THEN Panic
                   ELSE IF Improves(f_trial.val, f_x)
                   THEN LET h == push_sample(history, x_trial, f_trial.val)
                        IN  IF ~h.ok
                            THEN Panic
                            ELSE /\ x' = x_trial
                                 /\ f_x' = f_trial.val
                                 /\ step' = NewStep(run.step_increase, trial_step)
                                 /\ iter' = iter + 1
                                 /\ history' = h.val
                                 /\ direction' = << >>
                                 /\ trial_step' = Zero
                                 /\ attempt' = 0
                                 /\ w_pc' = "loop"
                                 /\ UNCHANGED <<run, ret>>
                   ELSE /\ trial_step' = ShrinkTrial(trial_step, run.step_decay)
                        /\ attempt' = attempt + 1
                        /\ UNCHANGED <<w_pc, run, ret, x, f_x, iter, step,
                                       history, direction>>
       ELSE /\ ret' = Some(FinalResult)
            /\ w_pc' = "Stagnated"
            /\ UNCHANGED <<run, locals, late_evals>>
    /\ UNCHANGED <<fields, gui, sent, probe>>

\* gui.rs:140: let _ = sender.send(result); then the thread ends
Send ==
    /\ w_pc \in Terminal
    /\ chan' = Append(chan, ret[1])
    /\ sent' = sent + 1
    /\ w_pc' = "done"
    /\ run' = NoRun
    /\ ret' = None
    /\ LocalsGone
    /\ UNCHANGED <<fields, state, result, error_message, stop_flag,
                   result_sender, late_evals, probe>>

Worker == Entry \/ LoopHead \/ Gradient \/ Trial \/ Send

(***************************************************************************)
(* GradientDescentApp, on the GUI thread.  update() polls the channel and  *)
(* then handles at most one click; the worker may send between the two, so *)
(* the poll and each click are separate steps.                             *)
(***************************************************************************)
\* the thread::spawn of start_optimization: the closure's captured values
Spawned(parsed, start_point) ==
    [pf |-> parsed, initial_point |-> start_point,
     initial_step |-> initial_step, step_decay |-> step_decay,
     step_increase |-> step_increase, tolerance |-> tolerance,
     max_iterations |-> max_iterations]

\* GradientDescentApp::start_optimization, called from the Idle arm of update;
\* the two messages stand for the Russian texts of gui.rs:91 and gui.rs:103
StartOptimization ==
    /\ state = "Idle"
    /\ stop_flag' = FALSE
    /\ result' = None
    /\ LET parsed == ParsedFunction_new(func_str, num_vars)
           start_point == parse_initial_point(initial_point_str, num_vars)
       IN  IF ~parsed.ok
           THEN /\ error_message' = "function error"
                /\ state' = "Idle"
                /\ UNCHANGED <<result_sender, worker, late_evals, sent>>
           ELSE IF ~IsSome(start_point)
           THEN /\ error_message' = "initial point error"
                /\ state' = "Idle"
                /\ UNCHANGED <<result_sender, worker, late_evals, sent>>
           ELSE IF ~result_sender
           \* expect("Sender already taken") panics the GUI thread
           THEN /\ error_message' = ""
                /\ state' = "Panicked"
                /\ UNCHANGED <<result_sender, worker, late_evals, sent>>
           ELSE /\ error_message' = ""
                /\ result_sender' = FALSE
                /\ state' = "Running"
                /\ w_pc' = "entry"
                /\ run' = Spawned(parsed.val, start_point[1])
                /\ ret' = None
                /\ LocalsGone
                /\ late_evals' = 0
                /\ sent' = 0
    /\ UNCHANGED <<fields, chan, probe>>

\* mutant of StopShown: the stop button is shown in Finished too
StopShown_AlsoFinished(s) == s \in {"Running", "Stopping", "Finished"}

\* the Running | Stopping arm of update's match shows the stop button
StopShown(s) == s \in {"Running", "Stopping"}

\* GradientDescentApp::stop_optimization, from the Running | Stopping arm
StopOptimization ==
    /\ StopShown(state)
    /\ stop_flag' = TRUE
    /\ state' = "Stopping"
    /\ UNCHANGED <<fields, result, error_message, result_sender, chan, worker,
                   late_evals, sent, probe>>

\* GradientDescentApp::check_for_result when try_recv returns a result; with
\* an empty or disconnected channel it changes nothing
CheckForResult ==
    /\ state # "Panicked"
    /\ chan # << >>
    /\ result' = Some(Head(chan))
    /\ state' = "Finished"
    /\ result_sender' = TRUE
    /\ chan' = << >>
    /\ UNCHANGED <<fields, error_message, stop_flag, worker, late_evals, sent,
                   probe>>

\* mutant of ResetShown: the reset button is shown while stopping too
ResetShown_AlsoStopping(s) == s \in {"Finished", "Stopping"}

\* the Finished arm of update's match shows the reset button
ResetShown(s) == s = "Finished"

\* the Finished arm of update: the reset button
Reset ==
    /\ ResetShown(state)
    /\ result' = None
    /\ state' = "Idle"
    /\ UNCHANGED <<fields, error_message, stop_flag, result_sender, chan,
                   worker, late_evals, sent, probe>>

(***************************************************************************)
(* The input widgets.  The worker reads only the copies moved into its     *)
(* closure and the fields are next read by start_optimization, which runs  *)
(* from Idle only, so an edit made in another state is the same edit made  *)
(* on return to Idle: the widgets are modelled in Idle.                    *)
(***************************************************************************)
EditNumVars ==
    /\ state = "Idle"
    /\ \E v \in NumVarsRange \ {num_vars} : num_vars' = v
    /\ UNCHANGED <<func_str, initial_point_str, initial_step, step_decay,
                   step_increase, tolerance, max_iterations, gui, worker,
                   late_evals, sent, probe>>

EditFuncStr ==
    /\ state = "Idle"
    /\ \E v \in FuncStrs \ {func_str} : func_str' = v
    /\ UNCHANGED <<num_vars, initial_point_str, initial_step, step_decay,
                   step_increase, tolerance, max_iterations, gui, worker,
                   late_evals, sent, probe>>

EditInitialPointStr ==
    /\ state = "Idle"
    /\ \E v \in PointStrs \ {initial_point_str} : initial_point_str' = v
    /\ UNCHANGED <<func_str, num_vars, initial_step, step_decay,
                   step_increase, tolerance, max_iterations, gui, worker,
                   late_evals, sent, probe>>

EditInitialStep ==
    /\ state = "Idle"
    /\ \E v \in InitialSteps \ {initial_step} : initial_step' = v
    /\ UNCHANGED <<func_str, num_vars, initial_point_str, step_decay,
                   step_increase, tolerance, max_iterations, gui, worker,
                   late_evals, sent, probe>>

EditStepDecay ==
    /\ state = "Idle"
    /\ \E v \in StepDecays \ {step_decay} : step_decay' = v
    /\ UNCHANGED <<func_str, num_vars, initial_point_str, initial_step,
                   step_increase, tolerance, max_iterations, gui, worker,
                   late_evals, sent, probe>>

EditStepIncrease ==
    /\ state = "Idle"
    /\ \E v \in StepIncreases \ {step_increase} : step_increase' = v
    /\ UNCHANGED <<func_str, num_vars, initial_point_str, initial_step,
                   step_decay, tolerance, max_iterations, gui, worker,
                   late_evals, sent, probe>>

EditMaxIterations ==
    /\ state = "Idle"
    /\ \E v \in MaxIterationsRange \ {max_iterations} : max_iterations' = v
    /\ UNCHANGED <<func_str, num_vars, initial_point_str, initial_step,
                   step_decay, step_increase, tolerance, gui, worker,
                   late_evals, sent, probe>>

Edit ==
    \/ EditNumVars \/ EditFuncStr \/ EditInitialPointStr \/ EditInitialStep
    \/ EditStepDecay \/ EditStepIncrease \/ EditMaxIterations

Next ==
    \/ Edit
    \/ StartOptimization
    \/ StopOptimization
    \/ CheckForResult
    \/ Reset
    \/ Worker

Spec == Init /\ [][Next]_vars

\* the worker thread is scheduled and update() keeps being called
FairSpec == Spec /\ WF_vars(Worker) /\ WF_vars(CheckForResult)

(***************************************************************************)
(* gradient_descent called directly: the worker starts with any arguments  *)
(* of the modelled ranges (also a max_iterations of 0 and a starting point *)
(* whose length differs from the function's dimension, which the front-end *)
(* never passes) while a controller may set the stop flag at any moment,   *)
(* also before the call.                                                   *)
(***************************************************************************)
\* the ParsedFunction values ParsedFunction::new can return
ParsedFunctions ==
    {ParsedFunction_new(s, n).val :
        <<s, n>> \in {sn \in FuncStrs \X NumVarsRange :
                         ParsedFunction_new(sn[1], sn[2]).ok}}

\* the starting points that parse
InitialPoints ==
    {parse_initial_point(parts, Len(parts))[1] :
        parts \in {q \in PointStrs : IsSome(parse_initial_point(q, Len(q)))}}

InitGD ==
    /\ func_str = SumSq /\ num_vars = 2 /\ initial_point_str = <<"2", "2">>
    /\ initial_step = One /\ step_decay = Dy(1, 1) /\ step_increase = One
    /\ tolerance = Tolerance /\ max_iterations = MaxIter
    /\ state = "Running" /\ result = None /\ error_message = ""
    /\ stop_flag \in BOOLEAN
    /\ result_sender = FALSE /\ chan = << >>
    /\ w_pc = "entry" /\ ret = None
    /\ run \in [pf : ParsedFunctions, initial_point : InitialPoints,
                initial_step : InitialSteps, step_decay : StepDecays,
                step_increase : StepIncreases, tolerance : {Tolerance},
                max_iterations : 0..MaxIter]
    /\ x = << >> /\ f_x = 0 /\ iter = 0 /\ step = Zero /\ history = << >>
    /\ direction = << >> /\ trial_step = Zero /\ attempt = 0
    /\ late_evals = 0 /\ sent = 0
    /\ probe = NoProbe

NextGD == Worker \/ StopOptimization

SpecGD == InitGD /\ [][NextGD]_vars

(***************************************************************************)
(* ParsedFunction::gradient called directly, on any function that          *)
(* ParsedFunction::new returns and any point of one to MaxDim + 1           *)
(* coordinates, so that a point of the wrong length is among them.         *)
(***************************************************************************)
\* the points the call is made on
ProbePoints ==
    UNION {[1..n -> (0 - MaxCoord)..MaxCoord] : n \in 1..(MaxDim + 1)}

InitGrad ==
    /\ func_str = SumSq /\ num_vars = 2 /\ initial_point_str = <<"2", "2">>
    /\ initial_step = One /\ step_decay = Dy(1, 1) /\ step_increase = One
    /\ tolerance = Tolerance /\ max_iterations = MaxIter
    /\ state = "Idle" /\ result = None /\ error_message = ""
    /\ stop_flag = FALSE
    /\ result_sender = TRUE /\ chan = << >>
    /\ w_pc = "none" /\ run = NoRun /\ ret = None
    /\ x = << >> /\ f_x = 0 /\ iter = 0 /\ step = Zero /\ history = << >>
    /\ direction = << >> /\ trial_step = Zero /\ attempt = 0
    /\ late_evals = 0 /\ sent = 0
    /\ probe \in [pc : {"call"}, pf : ParsedFunctions, point : ProbePoints,
                  out : {NoProbe.out}]

\* the call returns
GradientCall ==
    /\ probe.pc = "call"
    /\ probe' = [probe EXCEPT !.pc = "returned",
                              !.out = gradient(probe.pf, probe.point, Eps)]
    /\ UNCHANGED <<fields, gui, worker, late_evals, sent>>

NextGrad == GradientCall

SpecGrad == InitGrad /\ [][NextGrad]_vars

(***************************************************************************)
(* Properties.                                                             *)
(***************************************************************************)
\* gradient_descent is inside or just past its loop: its locals are live
InLoop == {"loop", "grad", "trial"} \cup Terminal

\* C1: in every state of a gradient_descent run and in every result it
\* returns, the iteration count is at most max_iterations and the trajectory
\* holds one sample more than the iteration count; the same relation holds
\* of every result in the channel and in the front-end.
C1_IterationsAndTrajectory ==
    /\ w_pc \in InLoop =>
          /\ iter <= run.max_iterations
          /\ Len(history) = iter + 1
    /\ w_pc \in Terminal =>
          /\ IsSome(ret)
          /\ ret[1].iterations <= run.max_iterations
          /\ Len(ret[1].history) = ret[1].iterations + 1
    /\ \A k \in 1..Len(chan) : Len(chan[k].history) = chan[k].iterations + 1
    /\ IsSome(result) => Len(result[1].history) = result[1].iterations + 1

\* C1 witness: a run that used its whole budget returns
C1_Witness ==
    /\ w_pc = "BudgetExhausted"
    /\ ret[1].iterations = run.max_iterations
    /\ ret[1].iterations >= 1
    /\ Len(ret[1].history) = ret[1].iterations + 1

\* the step of the worker that reaches the first iteration boundary with the
\* stop flag already set
FirstPollSeesFlag == w_pc = "loop" /\ iter = 0 /\ stop_flag /\ LoopHead

\* C2 as stated: if the stop flag is set before the loop's first iteration
\* boundary then, for every max_iterations >= 0, the result has
\* terminated_early = true and an iteration count below max_iterations.
C2_Original ==
    [][FirstPollSeesFlag =>
          /\ IsSome(ret')
          /\ ret'[1].terminated_early
          /\ ret'[1].iterations < run.max_iterations]_vars

\* C2 amended: with the stop flag set before the first iteration boundary, a
\* run with max_iterations >= 1 returns terminated_early = true and zero
\* iterations; a run with max_iterations = 0 never polls the flag and returns
\* terminated_early = false and zero iterations.
C2_Amended ==
    [][FirstPollSeesFlag =>
          /\ IsSome(ret')
          /\ ret'[1].iterations = 0
          /\ ret'[1].terminated_early = (run.max_iterations >= 1)
          /\ w_pc' = IF run.max_iterations >= 1 THEN "Cancelled"
                     ELSE "BudgetExhausted"]_vars

\* C2 witness: cancelled at the first boundary of a run with a budget
C2_Witness ==
    /\ w_pc = "Cancelled"
    /\ run.max_iterations >= 1
    /\ ret[1].terminated_early
    /\ ret[1].iterations = 0

\* C3 as stated: a run whose worker was spawned always reaches Finished,
\* whatever the evaluation does.
C3_Original == (state \in {"Running", "Stopping"}) ~> (state = "Finished")

\* C4 as stated: for every dimension n >= 1 the seed sample and one sample
\* per accepted iteration are recorded as triples, and the worker never fails
\* on a coordinate access.
C4_Original ==
    /\ w_pc # "panicked"
    /\ w_pc \in InLoop =>
          /\ Len(history) >= 1
          /\ \A k \in 1..Len(history) : Len(history[k]) = 3

\* C5 as stated: at every point of a run, from its initial state on, the
\* base step is in (0, 1].
C5_Original == w_pc \in InLoop => (DPos(step) /\ DLeqOne(step))

\* C5 amended: after every accepted step the base step is in (0, 1]; before
\* the first accepted step it is the initial step the front-end passed,
\* which may be anything in [0, 10].
C5_Amended ==
    w_pc \in InLoop =>
        IF iter = 0 THEN step = run.initial_step
        ELSE DPos(step) /\ DLeqOne(step)

\* C5 witness: a step was accepted in a run started with a step above 1
C5_Witness ==
    /\ w_pc = "loop"
    /\ iter >= 1
    /\ ~DLeqOne(run.initial_step)
    /\ DPos(step) /\ DLeqOne(step)

\* C6 as stated: once the stop flag is set, the loop makes at most 20
\* further eval calls before it returns.
C6_Original == w_pc \in Active => late_evals <= TrialBudget

\* C6 amended: once the stop flag is set, the loop makes at most n + 21
\* further eval calls before it returns: the n + 1 calls of one gradient and
\* up to 20 trial evaluations.
C6_Amended ==
    w_pc \in Active => late_evals <= (run.pf.num_vars + 1) + TrialBudget

\* C6 witness: the flag was set right after a poll, a gradient and twenty
\* trials followed, the twentieth was accepted and the next poll cancelled
C6_Witness ==
    /\ w_pc = "Cancelled"
    /\ stop_flag
    /\ late_evals = (run.pf.num_vars + 1) + TrialBudget

\* C7: a returned result has terminated_early = true exactly when the run
\* ended in Cancelled, and Cancelled is entered only with the stop flag set;
\* a run that ended otherwise reports false also when the flag is set by then.
C7_EarlyIffCancelled ==
    w_pc \in Terminal =>
        /\ IsSome(ret)
        /\ ret[1].terminated_early = (w_pc = "Cancelled")
        /\ (w_pc = "Cancelled") => stop_flag

\* C7 witness: the flag was set after the last poll of a run that returned
\* for another reason
C7_Witness ==
    /\ w_pc \in {"Converged", "Stagnated", "BudgetExhausted"}
    /\ stop_flag
    /\ ~ret[1].terminated_early

\* C8 as stated: every run sends exactly one result, the sender is there for
\* every later start, and the expectation on it never fails.
C8_Original ==
    /\ sent <= 1
    /\ w_pc \in {"done", "panicked"} => sent = 1
    /\ state = "Idle" => result_sender
    /\ state # "Panicked"

\* C9 as stated: no worker runs unless n >= 1, the starting point has n
\* components, initial step > 0, 0 < decay < 1, growth >= 1, tolerance > 0
\* and max_iterations >= 0.
C9_Original ==
    w_pc \in Active =>
        /\ run.pf.num_vars >= 1
        /\ Len(run.initial_point) = run.pf.num_vars
        /\ DPos(run.initial_step)
        /\ DPos(run.step_decay) /\ DLtOne(run.step_decay)
        /\ ~DLtOne(run.step_increase)
        /\ run.tolerance > 0
        /\ run.max_iterations >= 0

\* the starting point field does not hold exactly num_vars numbers
PointMismatch ==
    \/ Len(initial_point_str) # num_vars
    \/ \E j \in 1..Len(initial_point_str) : ~parse_f64(initial_point_str[j]).ok

\* C10: start_optimization on a starting point that does not hold exactly n
\* numbers leaves the state Idle, sets an error message, keeps the sender and
\* spawns no worker, so that no eval call is made.
C10_MismatchRejected ==
    [][(StartOptimization /\ PointMismatch) =>
          /\ state' = "Idle"
          /\ error_message' # ""
          /\ result_sender' = result_sender
          /\ UNCHANGED <<worker, late_evals, sent>>]_vars

\* C10 witness: the point error is showing for a mismatched point
C10_Witness ==
    /\ state = "Idle"
    /\ error_message = "initial point error"
    /\ PointMismatch
    /\ result_sender

\* C11: the values recorded in the trajectory are strictly decreasing from
\* each sample to the next, in the loop's trajectory and in the one of the
\* result it returns, and the current value f_x never increases at a step of
\* the loop.
C11_StrictlyDecreasing ==
    /\ [](/\ \A k \in 1..(Len(history) - 1) : history[k + 1][3] < history[k][3]
          /\ IsSome(ret) =>
                \A k \in 1..(Len(ret[1].history) - 1) :
                    ret[1].history[k + 1][3] < ret[1].history[k][3])
    /\ [][(w_pc \in InLoop /\ w_pc' \in InLoop) => f_x' <= f_x]_vars

\* C11 witness: a returned trajectory of three samples, the seed and two
\* accepted steps
C11_Witness ==
    /\ w_pc \in Terminal
    /\ Len(ret[1].history) = 3
    /\ ret[1].history[3][3] < ret[1].history[2][3]
    /\ ret[1].history[2][3] < ret[1].history[1][3]

\* C12: when none of the 20 shrinking trial steps of an iteration gives a
\* value strictly below the current one, the loop ends in that iteration with
\* terminated_early = false after exactly 20 trial evaluations (one eval call
\* per trial), and the iteration count, the current point, the current value,
\* the base step and the trajectory are those the iteration began with.
C12_Stagnation ==
    /\ [](w_pc = "Stagnated" =>
             /\ attempt = TrialBudget
             /\ ret = Some(OptimizerResult(x, f_x, iter, history, FALSE)))
    /\ [][(w_pc = "trial" /\ attempt = TrialBudget /\ Trial) =>
             w_pc' = "Stagnated"]_vars
    /\ [][(w_pc = "trial" /\ w_pc' = "Stagnated") =>
             attempt = TrialBudget /\ late_evals' = late_evals]_vars
    /\ [][(w_pc = "trial" /\ attempt' = attempt + 1 /\ stop_flag) =>
             late_evals' = late_evals + 1]_vars
    /\ [][(w_pc \in {"loop", "grad", "trial"}
           /\ w_pc' \in {"grad", "trial", "Stagnated"}) =>
             UNCHANGED <<x, f_x, iter, step, history>>]_vars

\* C12 witness: a run stagnates after an accepted iteration, with the stop
\* flag set meanwhile
C12_Witness ==
    /\ w_pc = "Stagnated"
    /\ attempt = TrialBudget
    /\ iter >= 1
    /\ stop_flag
    /\ ~ret[1].terminated_early
    /\ ret[1].iterations = iter /\ Len(ret[1].history) = iter + 1

\* decay^k
RECURSIVE DPow(_, _)
DPow(d, k) == IF k = 0 THEN One ELSE DMul(d, DPow(d, k - 1))

\* C13: in the step search the k-th trial (k = 0..19) uses the step
\* step * decay^k along d = -g from x; the first trial whose value is strictly
\* below f(x) is accepted, the new point and value are that trial's point and
\* value, the new base step is min(growth * trial, 1.0), and no later trial
\* is evaluated: the search is over and the next step is the loop head; a
\* trial whose value is not below f(x) is not accepted.
C13_StepSearch ==
    /\ [](w_pc = "trial" =>
             /\ attempt \in 0..TrialBudget
             /\ trial_step = DMul(step, DPow(run.step_decay, attempt))
             /\ gradient(run.pf, x, Eps).ok
             /\ \A j \in 1..Len(x) :
                    direction[j] = 0 - gradient(run.pf, x, Eps).val[j])
    /\ [][(w_pc = "trial" /\ attempt < TrialBudget /\ Trial) =>
             LET x_trial == [j \in 1..Len(x) |->
                                x[j] + Scaled(trial_step, direction[j])]
                 f_trial == ExprValue(run.pf.expr, x_trial)
                 scaled == DMul(run.step_increase, trial_step)
             IN  IF f_trial < f_x
                 THEN /\ x' = x_trial
                      /\ f_x' = f_trial
                      /\ step' = IF DLeqOne(scaled) THEN scaled ELSE One
                      /\ iter' = iter + 1
                      /\ w_pc' = "loop"
                 ELSE /\ w_pc' = "trial"
                      /\ attempt' = attempt + 1
                      /\ UNCHANGED <<x, f_x, step, iter>>]_vars

\* C13 witness: the twentieth trial, of step 1 * (1/2)^19, was accepted and
\* with growth 1 the base step is now that trial step
C13_Witness ==
    /\ w_pc = "loop"
    /\ iter = 1
    /\ run.initial_step = One /\ run.step_decay = Dy(1, 1)
    /\ run.step_increase = One
    /\ step = Dy(1, 19)
    /\ f_x < history[1][3]

\* the scheduler keeps running the thread that called gradient_descent
FairSpecGD == SpecGD /\ WF_vars(Worker)

\* the Objective Evaluator is total on the run's points: the starting point
\* has the function's dimension
TotalEvaluator == Len(run.initial_point) = run.pf.num_vars

\* C14 as stated: every run of gradient_descent with a total Objective
\* Evaluator and a finite max_iterations reaches one of the terminal states
\* Converged, Stagnated, BudgetExhausted, Cancelled, whether or not the stop
\* flag is ever set.
C14_Original == (w_pc = "entry" /\ TotalEvaluator) ~> (w_pc \in Terminal)

\* the same for the runs in two or more dimensions (not a claim's formula:
\* it records what does hold)
TerminatesFromTwoDimensions ==
    (w_pc = "entry" /\ TotalEvaluator /\ Len(run.initial_point) >= 2)
        ~> (w_pc \in Terminal)

\* C15: when the loop sees the stop flag at the start of an iteration it
\* returns at once: no gradient or objective evaluation is made and the
\* iteration counter is not incremented in that step, and the returned point,
\* value, iteration count and trajectory are those committed by the last
\* accepted iteration (the seed, if there was none): the trajectory's last
\* sample is the returned point and value, and it has one sample per counted
\* iteration besides the seed.
C15_CancelReturnsCommitted ==
    /\ [][(w_pc = "loop" /\ w_pc' = "Cancelled") =>
             /\ stop_flag
             /\ late_evals' = late_evals
             /\ UNCHANGED locals
             /\ ret' = Some([x |-> x, f_x |-> f_x, iterations |-> iter,
                             history |-> history, terminated_early |-> TRUE])]_vars
    /\ [][(w_pc = "loop" /\ stop_flag /\ iter < run.max_iterations /\ LoopHead)
             => w_pc' = "Cancelled"]_vars
    /\ [](w_pc = "Cancelled" =>
             LET r == ret[1]
                 last == r.history[Len(r.history)]
             IN  /\ Len(r.history) = r.iterations + 1
                 /\ last = <<r.x[1], r.x[2], r.f_x>>)

\* C15 witness: a run is cancelled after an accepted iteration
C15_Witness ==
    /\ w_pc = "Cancelled"
    /\ ret[1].iterations >= 1
    /\ ret[1].x = x /\ ret[1].x # run.initial_point
    /\ ret[1].history[Len(ret[1].history)][3] = ret[1].f_x

\* the gradient estimate at the run's starting point exists and its norm is
\* below the tolerance
ZeroGradientAtStart ==
    LET g == gradient(run.pf, run.initial_point, Eps)
    IN  g.ok /\ NormBelow(g.val, run.tolerance)

\* the result of a run that took no step
SeedResult ==
    LET x0 == run.initial_point
        f0 == ExprValue(run.pf.expr, x0)
    IN  [x |-> x0, f_x |-> f0, iterations |-> 0,
         history |-> << <<x0[1], x0[2], f0>> >>, terminated_early |-> FALSE]

\* the Entry step of a run whose starting point has at least dim components
\* and a zero gradient reaches the loop
StartReachesLoop(dim) ==
    (w_pc = "entry" /\ ZeroGradientAtStart /\ Entry
     /\ Len(run.initial_point) >= dim) => w_pc' = "loop"

\* the first gradient of such a run ends the loop, and a Converged transition
\* takes no step: it returns the locals as they are
ConvergedTakesNoStep ==
    /\ (w_pc = "grad" /\ iter = 0 /\ ZeroGradientAtStart /\ Gradient) =>
          w_pc' = "Converged"
    /\ (w_pc = "grad" /\ w_pc' = "Converged") =>
          /\ UNCHANGED locals
          /\ ret' = Some([x |-> x, f_x |-> f_x, iterations |-> iter,
                          history |-> history, terminated_early |-> FALSE])

\* such a run, the stop flag not set, returns the seed result
SeedResultReturned ==
    (w_pc \in Terminal /\ ZeroGradientAtStart /\ ~stop_flag) =>
        ret = Some(SeedResult)

\* C16 as stated: if the gradient norm at the starting point is below the
\* tolerance and the stop flag is not set, the run ends with zero iterations,
\* a trajectory holding only the seed sample, terminated_early = false and
\* the starting point and its value as the final ones; a Converged transition
\* takes no step in the iteration that detects it.
C16_Original ==
    /\ [][StartReachesLoop(1) /\ ConvergedTakesNoStep]_vars
    /\ []SeedResultReturned

\* the same for the runs in two or more dimensions (not a claim's formula:
\* it records what does hold)
ConvergedAtStartFromTwoDimensions ==
    /\ [][StartReachesLoop(2) /\ ConvergedTakesNoStep]_vars
    /\ []SeedResultReturned

\* C17: a gradient call on a point of the function's dimension n makes
\* exactly n + 1 eval calls (the base value once, then one perturbed point
\* per coordinate) and returns g with g[i] = (f(x + eps*e_i) - f(x)) / eps;
\* on a point whose length differs from n, or when an evaluation fails, it
\* returns the failure and no partial gradient.
C17_GradientEstimator ==
    probe.pc = "returned" =>
        LET pf == probe.pf
            p == probe.point
            out == probe.out
        IN  IF Len(p) = pf.num_vars /\ ExprArity(pf.expr) <= pf.num_vars
            THEN /\ out.ok
                 /\ out.calls = pf.num_vars + 1
                 /\ Len(out.val) = pf.num_vars
                 /\ \A i \in 1..pf.num_vars :
                        out.val[i] * Eps =
                            ExprValue(pf.expr, [p EXCEPT ![i] = p[i] + Eps])
                            - ExprValue(pf.expr, p)
            ELSE /\ ~out.ok
                 /\ out.val = << >>

\* C17 witness: the gradient of x1^2 + x2^2 at (2, 2), from three eval calls
C17_Witness ==
    /\ probe.pc = "returned"
    /\ probe.pf = [expr |-> SumSq, num_vars |-> 2]
    /\ probe.point = <<2, 2>>
    /\ probe.out = [ok |-> TRUE, val |-> <<5, 5>>, calls |-> 3]

\* C19: a stop request never leaks into another run.  The stop flag is
\* cleared only by start_optimization, which runs from Idle only, when no
\* worker is active and no result is pending, and every worker is spawned
\* with the flag clear; the flag is set only by stop_optimization in Running
\* or Stopping; hence a result with terminated_early = true, where the worker
\* returns it, in the channel and in the front-end, goes with a set flag (stop
\* was called during its run), and a flag set during a run stays set until
\* that run's result has been received.
C19_StopStaysInItsRun ==
    /\ [][(stop_flag /\ ~stop_flag') =>
             /\ state = "Idle"
             /\ w_pc \notin Active
             /\ chan = << >>]_vars
    /\ [][(result_sender /\ ~result_sender') =>
             state = "Idle" /\ ~stop_flag' /\ w_pc' = "entry"]_vars
    /\ [][(~stop_flag /\ stop_flag') =>
             state \in {"Running", "Stopping"} /\ state' = "Stopping"]_vars
    /\ [](/\ w_pc = "Cancelled" => stop_flag /\ state = "Stopping"
          /\ \A k \in 1..Len(chan) :
                 chan[k].terminated_early => stop_flag /\ state = "Stopping"
          /\ (IsSome(result) /\ result[1].terminated_early) =>
                 stop_flag /\ state = "Finished")
    /\ []((stop_flag /\ (w_pc \in Active \/ chan # << >>)) =>
             state = "Stopping")

\* C19 witness: the front-end holds the result of a run that was stopped
\* after an accepted iteration, the flag still set
C19_Witness ==
    /\ state = "Finished"
    /\ IsSome(result)
    /\ result[1].terminated_early
    /\ result[1].iterations >= 1
    /\ stop_flag

\* C20: over any sequence of GUI events at most one worker is active at any
\* time.  A worker is spawned (the Sender is taken) only from Idle, and in
\* Idle no worker is active and no result is pending; a worker is active or
\* its result pending only in Running or Stopping; Idle is re-entered only
\* from Finished, and Finished is entered only by receiving the result of the
\* previous worker, which has ended.
C20_OneWorker ==
    /\ [](state = "Idle" => w_pc \notin Active /\ chan = << >>)
    /\ []((w_pc \in Active \/ chan # << >>) =>
             state \in {"Running", "Stopping"} /\ ~result_sender)
    /\ [](Len(chan) + (IF w_pc \in Active THEN 1 ELSE 0) <= 1)
    /\ [][(result_sender /\ ~result_sender') =>
             /\ state = "Idle"
             /\ w_pc \notin Active
             /\ w_pc' = "entry"
             /\ state' = "Running"]_vars
    /\ [][(w_pc # "entry" /\ w_pc' = "entry") =>
             result_sender /\ ~result_sender']_vars
    /\ [][(state # "Idle" /\ state' = "Idle") => state = "Finished"]_vars
    /\ [][(state # "Finished" /\ state' = "Finished") =>
             /\ chan # << >>
             /\ result' = Some(Head(chan))
             /\ w_pc = "done"]_vars

\* C20 witness: Idle is re-entered after a worker has ended and its result
\* has been received and reset; the next worker can be spawned
C20_Witness ==
    /\ state = "Idle"
    /\ w_pc = "done"
    /\ result_sender
    /\ chan = << >>
    /\ result = None
=============================================================================
